---------------------------- MODULE Spec2Model ----------------------------
(***************************************************************************)
(* SDEI (firmware-delegated event) dispatch of arch/arm64/kernel/sdei.c:   *)
(* the per-cpu stack arena, the stack membership test, the entry point     *)
(* resolution, the event dispatcher _sdei_handler and the re-entrant       *)
(* wrapper __sdei_handler.                                                 *)
(*                                                                         *)
(* Addresses of the vmalloc area are the cells 1..VmallocCells, 0 is NULL. *)
(* A stack is SDEI_STACK_SIZE cells.  unsigned long is WordBits wide.      *)
(***************************************************************************)
EXTENDS Integers, Sequences, FiniteSets, TLC

\* ------------------------------------------------------------------ bounds
NR_CPUS == 2
SDEI_STACK_SIZE == 2
VmallocCells == 8
WordBits == 12
\* critical events that preempt one normal event
MaxPreempts == 1

\* --------------------------------------------------------------- constants
ENOMEM == 12
SDEI_EXIT_HVC == 0
SDEI_EXIT_SMC == 1
SDEI_EV_HANDLED == 0
SDEI_EV_FAILED == 1

NULL == 0
ULongMod == 2 ^ WordBits
CONDUIT_INVALID == "CONDUIT_INVALID"
CONDUIT_SMC == "CONDUIT_SMC"
CONDUIT_HVC == "CONDUIT_HVC"
\* sdei_arch_get_entry_point is given the conduit that was probed
Conduits == {CONDUIT_SMC, CONDUIT_HVC}

Cpus == 0 .. (NR_CPUS - 1)
Slots == {"normal", "critical"}

VARIABLES
  config_vmap_stack,        \* IS_ENABLED(CONFIG_VMAP_STACK)
  cpu_possible_mask,        \* the possible processors
  hyp_mode_available,       \* is_hyp_mode_available(): booted at EL2
  CurrentEL,                \* the CurrentEL system register (EL in bits 3:2)
  sdei_stack_normal_ptr,    \* per-cpu pointer, NULL when not allocated
  sdei_stack_critical_ptr,  \* per-cpu pointer, NULL when not allocated
  vmalloc_live,             \* the regions the allocator has handed out: base, size
  vfree_log,                \* pointers given to vfree by the last free_sdei_stacks
  vfree_bad,                \* vfree was given a pointer that was not live
  sdei_exit_mode,           \* the recorded firmware calling convention
  ep_pc,                    \* where sdei_arch_get_entry_point is
  ep_conduit,               \* its argument
  init_pos,                 \* init_sdei_stacks: the next (cpu, slot) to allocate
  init_err,                 \* init_sdei_stacks: its err
  entry_point,              \* what sdei_arch_get_entry_point returned
  alloc_calls,              \* arch_alloc_vmap_stack calls made by the resolution
  on_stack,                 \* the _on_sdei_stack query the last step made, if any
  frames,                   \* the __sdei_handler invocations in flight, outermost first
  cur_cpu,                  \* the processor the events in flight were delivered to
  nmi_flag,                 \* per cpu: in_nmi()
  nmi_enter_calls,          \* nmi_enter calls since the outermost event arrived
  nmi_exit_calls,           \* nmi_exit calls since the outermost event arrived
  preempts,                 \* critical events that preempted the outermost event
  preempts_flagged,         \* those of them that found the processor flagged
  last_ret,                 \* what __sdei_handler returned in the last step, if it did
  disarms,                  \* the free_sdei_stacks calls of teardown in a row, to 2
  d_in,                     \* the inputs of one _sdei_handler or wd_do_comp call
  d_out                     \* its results

arena_vars == <<sdei_stack_normal_ptr, sdei_stack_critical_ptr, vmalloc_live,
                vfree_log, vfree_bad>>
config_vars == <<config_vmap_stack, cpu_possible_mask, hyp_mode_available,
                 CurrentEL>>
ep_vars == <<sdei_exit_mode, ep_pc, ep_conduit, init_pos, init_err,
             entry_point, alloc_calls>>
handler_vars == <<frames, cur_cpu, nmi_flag, nmi_enter_calls, nmi_exit_calls,
                  preempts, preempts_flagged>>
obs_vars == <<on_stack, last_ret, disarms>>
disp_vars == <<d_in, d_out>>
vars == <<config_vars, arena_vars, ep_vars, obs_vars, handler_vars, disp_vars>>

\* ----------------------------------------------------------------- helpers
\* A value that is not assigned yet.
Unset == -1
NoQuery == [cpu |-> 0, sp |-> 0, res |-> FALSE, asked |-> FALSE]
\* A step that is neither a query nor a return leaves no observation.
NoObs == on_stack' = NoQuery /\ last_ret' = Unset /\ disarms' = 0

RECURSIVE SetToSortedSeq(_)
SetToSortedSeq(S) ==
  IF S = {} THEN <<>>
  ELSE LET m == CHOOSE x \in S : \A y \in S : x <= y
       IN <<m>> \o SetToSortedSeq(S \ {m})

\* for_each_possible_cpu: the possible cpus in increasing order
for_each_possible_cpu == SetToSortedSeq(cpu_possible_mask)

Range(s) == {s[i] : i \in 1 .. Len(s)}
Count(s, x) == Cardinality({i \in 1 .. Len(s) : s[i] = x})

\* The arena as one value, for the operators that transform it.
Arena ==
  [normal |-> sdei_stack_normal_ptr, critical |-> sdei_stack_critical_ptr,
   live |-> vmalloc_live, log |-> vfree_log, bad |-> vfree_bad]

SetArena(a) ==
  /\ sdei_stack_normal_ptr' = a.normal
  /\ sdei_stack_critical_ptr' = a.critical
  /\ vmalloc_live' = a.live
  /\ vfree_log' = a.log
  /\ vfree_bad' = a.bad

\* The addresses of the region of size cells at base.
Cells(base, size) == base .. (base + size - 1)
LiveBases(live) == {r.base : r \in live}

\* ------------------------------------------------------------- stack arena
\* vfree(p): the region leaves the allocator; a pointer that is not live is a
\* double free.
vfree(a, p) ==
  [a EXCEPT !.live = {r \in @ : r.base # p}, !.log = Append(@, p),
            !.bad = @ \/ (p \notin LiveBases(a.live))]

_free_sdei_stack_keep_ptr(a, slot, cpu) ==
  LET p == a[slot][cpu]
  IN IF p # NULL THEN vfree(a, p) ELSE a

_free_sdei_stack(a, slot, cpu) ==
  LET p == a[slot][cpu]
  IN IF p # NULL
     THEN vfree([a EXCEPT ![slot][cpu] = NULL], p)
     ELSE a

RECURSIVE free_sdei_stacks_loop(_, _)
free_sdei_stacks_loop(a, cpus) ==
  IF cpus = <<>> THEN a
  ELSE free_sdei_stacks_loop(
         _free_sdei_stack(_free_sdei_stack(a, "normal", Head(cpus)),
                          "critical", Head(cpus)),
         Tail(cpus))

free_sdei_stacks(a) ==
  free_sdei_stacks_loop([a EXCEPT !.log = <<>>], for_each_possible_cpu)

\* arch_alloc_vmap_stack(size, node): NULL, or the base of a region of size
\* cells that overlaps no live region and lies inside the vmalloc area.
arch_alloc_vmap_stack(size, live) ==
  {NULL} \cup
  {b \in 1 .. VmallocCells :
     /\ b + size - 1 <= VmallocCells
     /\ \A l \in live : Cells(b, size) \cap Cells(l.base, l.size) = {}}

\* The allocator's state once it has returned p for a request of size cells.
Allocated(live, size, p) ==
  IF p = NULL THEN live ELSE live \cup {[base |-> p, size |-> size]}

\* sdei.c:76: the size _init_sdei_stack asks for
StackRequest == SDEI_STACK_SIZE

\* a.live holds the allocation already; p is what arch_alloc_vmap_stack
\* returned
_init_sdei_stack(a, slot, cpu, p) ==
  IF p = NULL
  THEN [err |-> -ENOMEM, a |-> a]
  ELSE [err |-> 0, a |-> [a EXCEPT ![slot][cpu] = p]]

\* The (cpu, slot) pairs in the order init_sdei_stacks allocates them.
InitOrderLen == 2 * Len(for_each_possible_cpu)
InitCpu(pos) == for_each_possible_cpu[(pos + 1) \div 2]
InitSlotNormalTwice(pos) == "normal"

\* sdei.c:90, 93: the normal slot, then the critical one
InitSlot(pos) == IF pos % 2 = 1 THEN "normal" ELSE "critical"


\* ------------------------------------------------------- membership oracle
_on_sdei_stack_closed_range(cpu, sp) ==
  IF ~config_vmap_stack THEN FALSE
  ELSE LET low == sdei_stack_critical_ptr[cpu]
           high == (low + SDEI_STACK_SIZE) % ULongMod
       IN IF low <= sp /\ sp <= high THEN TRUE
          ELSE LET low2 == sdei_stack_normal_ptr[cpu]
                   high2 == (low2 + SDEI_STACK_SIZE) % ULongMod
               IN low2 <= sp /\ sp <= high2

\* raw_cpu_read reads the slot of the invoking processor, cpu.
_on_sdei_stack(cpu, sp) ==
  IF ~config_vmap_stack THEN FALSE
  ELSE LET low == sdei_stack_critical_ptr[cpu]
           high == (low + SDEI_STACK_SIZE) % ULongMod
       IN IF low <= sp /\ sp < high THEN TRUE
          ELSE LET low2 == sdei_stack_normal_ptr[cpu]
                   high2 == (low2 + SDEI_STACK_SIZE) % ULongMod
               IN low2 <= sp /\ sp < high2

\* ---------------------------------------------------- entry point resolver
CurrentEL_EL1 == 4
CurrentEL_EL2 == 8
is_kernel_in_hyp_mode == CurrentEL = CurrentEL_EL2
is_hyp_mode_available == hyp_mode_available

\* The address of the assembly trampoline: a fixed non-zero kernel address.
__sdei_asm_handler == 2 ^ (WordBits - 1) + 2 ^ (WordBits - 2)

ExitModeSwapped(conduit) ==
  IF conduit = CONDUIT_HVC THEN SDEI_EXIT_SMC ELSE SDEI_EXIT_HVC

\* sdei.c:141
ExitMode(conduit) ==
  IF conduit = CONDUIT_HVC THEN SDEI_EXIT_HVC ELSE SDEI_EXIT_SMC

\* sdei.c:131
BootConfigUnsupported == is_hyp_mode_available /\ ~is_kernel_in_hyp_mode

\* sdei.c:141-142: record the calling convention, return the entry point
Publish(conduit) ==
  /\ sdei_exit_mode' = ExitMode(conduit)
  /\ entry_point' = __sdei_asm_handler
  /\ ep_pc' = "published"

PublishNothingEarlyMode(conduit) ==
  /\ sdei_exit_mode' = ExitMode(conduit)
  /\ entry_point' = 0
  /\ ep_pc' = "failed"

\* sdei.c:133, 138: return 0
PublishNothing(conduit) ==
  /\ sdei_exit_mode' = sdei_exit_mode
  /\ entry_point' = 0
  /\ ep_pc' = "failed"

init_sdei_stacks_rollback_none(a, err) == a

\* sdei.c:98-99: if (err) free_sdei_stacks();
init_sdei_stacks_rollback(a, err) ==
  IF err # 0 THEN free_sdei_stacks(a) ELSE a

\* sdei_arch_get_entry_point up to its first allocation: the privilege check,
\* then either the whole function (no stack isolation) or the start of
\* init_sdei_stacks.
sdei_arch_get_entry_point ==
  /\ ep_pc = "boot"
  /\ \E conduit \in Conduits :
       /\ ep_conduit' = conduit
       /\ IF BootConfigUnsupported
          THEN PublishNothing(conduit) /\ UNCHANGED init_pos
          ELSE IF config_vmap_stack
               THEN /\ ep_pc' = "arming"
                    /\ init_pos' = 1
                    /\ UNCHANGED <<sdei_exit_mode, entry_point>>
               ELSE Publish(conduit) /\ UNCHANGED init_pos
  /\ UNCHANGED <<arena_vars, config_vars, init_err, alloc_calls,
                 handler_vars, disp_vars>>
  /\ NoObs

\* One iteration of the allocations of init_sdei_stacks; the iteration that
\* fails or that ends the loop also runs the rest of init_sdei_stacks and of
\* sdei_arch_get_entry_point.
init_sdei_stacks ==
  /\ ep_pc = "arming"
  /\ \E p \in arch_alloc_vmap_stack(StackRequest, vmalloc_live) :
       LET got == [Arena EXCEPT
                     !.live = Allocated(vmalloc_live, StackRequest, p)]
           r == _init_sdei_stack(got, InitSlot(init_pos), InitCpu(init_pos), p)
       IN /\ alloc_calls' = alloc_calls + 1
          /\ SetArena(init_sdei_stacks_rollback(r.a, r.err))
          /\ IF r.err # 0
             THEN /\ init_err' = r.err
                  /\ PublishNothing(ep_conduit)
                  /\ UNCHANGED init_pos
             ELSE IF init_pos = InitOrderLen
                  THEN /\ init_err' = 0
                       /\ Publish(ep_conduit)
                       /\ UNCHANGED init_pos
                  ELSE /\ init_pos' = init_pos + 1
                       /\ UNCHANGED <<init_err, sdei_exit_mode, entry_point, ep_pc>>
  /\ UNCHANGED <<config_vars, ep_conduit, handler_vars, disp_vars>>
  /\ NoObs


\* free_sdei_stacks at teardown of the subsystem; arming and disarming do not
\* run concurrently with a dispatch.
Disarm ==
  /\ ep_pc \in {"boot", "failed", "published", "torn_down"}
  /\ SetArena(free_sdei_stacks(Arena))
  /\ ep_pc' = IF ep_pc = "published" THEN "torn_down" ELSE ep_pc
  /\ disarms' = IF disarms < 2 THEN disarms + 1 ELSE 2
  /\ on_stack' = NoQuery
  /\ last_ret' = Unset
  /\ UNCHANGED <<config_vars, sdei_exit_mode, ep_conduit, init_pos, init_err,
                 entry_point, alloc_calls, handler_vars, disp_vars>>

StackPointers == 0 .. (VmallocCells + SDEI_STACK_SIZE)

\* A caller (the stack walker) asks _on_sdei_stack(sp) on processor cpu.
OnSdeiStackQuery ==
  /\ ep_pc # "arming"
  /\ on_stack = NoQuery
  /\ \E cpu \in cpu_possible_mask, sp \in StackPointers :
       on_stack' = [cpu |-> cpu, sp |-> sp, res |-> _on_sdei_stack(cpu, sp),
                    asked |-> TRUE]
  /\ last_ret' = Unset
  /\ disarms' = 0
  /\ UNCHANGED <<config_vars, arena_vars, ep_vars, handler_vars, disp_vars>>


\* -------------------------------------------------------- event dispatcher
PSR_MODE_EL0t == 0
PSR_MODE_EL1t == 4
PSR_MODE_EL1h == 5
PSR_MODE_EL2t == 8
PSR_MODE_EL2h == 9
PSR_MODE_MASK == 15
PSR_MODE32_BIT == 16
PSR_F_BIT == 64
PSR_I_BIT == 128
PSR_A_BIT == 256
PSR_D_BIT == 512
clobbered_registers == 4
IrqVectorCurrentELSPx == 640    \* 0x280
IrqVectorLowerEL64 == 1152      \* 0x480
IrqVectorLowerEL32 == 1664      \* 0x680
VectorAlign == 2048             \* 0x800

RECURSIVE BitAnd(_, _)
BitAnd(a, b) ==
  IF a = 0 \/ b = 0 THEN 0
  ELSE (a % 2) * (b % 2) + 2 * BitAnd(a \div 2, b \div 2)

RECURSIVE BitOr(_, _)
BitOr(a, b) ==
  IF a = 0 THEN b
  ELSE IF b = 0 THEN a
  ELSE (IF a % 2 = 1 \/ b % 2 = 1 THEN 1 ELSE 0) + 2 * BitOr(a \div 2, b \div 2)

\* asm/ptrace.h: interrupts_enabled(regs)
interrupts_enabled(regs) == BitAnd(regs.pstate, PSR_I_BIT) = 0

call_context == "sdei_api_event_context"
call_pan == "SET_PSTATE_PAN"
call_handler == "sdei_event_handler"
call_warn == "pr_warn"

RetrieveRegistersUpTo(n, regs, fw, calls) ==
  LET RECURSIVE loop(_, _, _)
      loop(i, r, c) ==
        IF i < n
        THEN loop(i + 1, [r EXCEPT !.x[i] = fw[i]],
                  Append(c, <<call_context, i>>))
        ELSE [regs |-> r, calls |-> c]
  IN loop(0, regs, calls)

RetrieveRegistersFive(regs, fw, calls) ==
  RetrieveRegistersUpTo(clobbered_registers + 1, regs, fw, calls)

RetrieveRegistersThree(regs, fw, calls) ==
  RetrieveRegistersUpTo(clobbered_registers - 1, regs, fw, calls)

\* sdei.c:162-165: regs->regs[i] = the value firmware kept, for i = 0..3
RetrieveRegisters(regs, fw, calls) ==
  RetrieveRegistersUpTo(clobbered_registers, regs, fw, calls)

\* sdei.c:171: the alternative is a nop on a cpu without PAN
SetPan(sys) == IF sys.has_pan THEN 1 ELSE sys.pan

\* sdei_event_handler(regs, arg): the registered callback.  It reports err,
\* may have taken a synchronous exception (elr_el1 changes) and may write
\* the saved processor state of the snapshot it is given.
RunCallback(regs, cb) ==
  [err |-> cb.err,
   elr_el1 |-> cb.elr_el1,
   regs |-> IF cb.writes_pstate THEN [regs EXCEPT !.pstate = cb.pstate]
            ELSE regs]

DispositionHandledAnyIrq(mode, kernel_mode, irqs_on, vbar) ==
  IF mode = kernel_mode THEN SDEI_EV_HANDLED
  ELSE IF BitAnd(mode, PSR_MODE32_BIT) # 0
       THEN (vbar + IrqVectorLowerEL32) % ULongMod
       ELSE (vbar + IrqVectorLowerEL64) % ULongMod

DispositionSwappedUser(mode, kernel_mode, irqs_on, vbar) ==
  IF mode = kernel_mode /\ ~irqs_on THEN SDEI_EV_HANDLED
  ELSE IF mode = kernel_mode
       THEN (vbar + IrqVectorCurrentELSPx) % ULongMod
       ELSE IF BitAnd(mode, PSR_MODE32_BIT) # 0
            THEN (vbar + IrqVectorLowerEL64) % ULongMod
            ELSE (vbar + IrqVectorLowerEL32) % ULongMod

DispositionNoKernelOffset(mode, kernel_mode, irqs_on, vbar) ==
  IF mode = kernel_mode /\ ~irqs_on THEN SDEI_EV_HANDLED
  ELSE IF mode = kernel_mode
       THEN vbar % ULongMod
       ELSE IF BitAnd(mode, PSR_MODE32_BIT) # 0
            THEN (vbar + IrqVectorLowerEL32) % ULongMod
            ELSE (vbar + IrqVectorLowerEL64) % ULongMod

\* sdei.c:193-209
Disposition(mode, kernel_mode, irqs_on, vbar) ==
  IF mode = kernel_mode /\ ~irqs_on THEN SDEI_EV_HANDLED
  ELSE IF mode = kernel_mode
       THEN (vbar + IrqVectorCurrentELSPx) % ULongMod
       ELSE IF BitAnd(mode, PSR_MODE32_BIT) # 0
            THEN (vbar + IrqVectorLowerEL32) % ULongMod
            ELSE (vbar + IrqVectorLowerEL64) % ULongMod

CallbackFailedIgnored(err) == FALSE

\* sdei.c:175: if (err)
CallbackFailed(err) == err # 0

ExceptionDuringHandlerNever(elr, elr_now) == FALSE

\* sdei.c:178: if (elr != read_sysreg(elr_el1))
ExceptionDuringHandler(elr, elr_now) == elr # elr_now

\* _sdei_handler(regs, arg) on the inputs in: the snapshot in.regs, the system
\* registers in.sys, the values in.fw the firmware kept of the clobbered
\* registers, and what the callback in.cb does.  It gives the return value,
\* the snapshot on return, PSTATE.PAN, whether the warning was logged, the
\* calls made, in order, and the event descriptor in.arg as it leaves it.
_sdei_handler(in) ==
  LET elr == in.sys.elr_el1
      kernel_mode == BitOr(in.sys.CurrentEL, 1)
      vbar == in.sys.vbar_el1
      got == RetrieveRegisters(in.regs, in.fw, <<>>)
      pan == SetPan(in.sys)
      calls1 == IF in.sys.has_pan THEN Append(got.calls, <<call_pan, 1>>)
                ELSE got.calls
      cb == RunCallback(got.regs, in.cb)
      calls2 == Append(calls1, <<call_handler, 0>>)
      regs == cb.regs
  IN IF CallbackFailed(cb.err)
     THEN [ret |-> SDEI_EV_FAILED, regs |-> regs, pan |-> pan,
           warned |-> FALSE, calls |-> calls2, arg |-> in.arg]
     ELSE LET warned == ExceptionDuringHandler(elr, cb.elr_el1)
              calls3 == IF warned THEN Append(calls2, <<call_warn, 0>>)
                        ELSE calls2
              mode == BitAnd(regs.pstate, BitOr(PSR_MODE32_BIT, PSR_MODE_MASK))
          IN [ret |-> Disposition(mode, kernel_mode, interrupts_enabled(regs),
                                  vbar),
              regs |-> regs, pan |-> pan, warned |-> warned,
              calls |-> calls3, arg |-> in.arg]

\* ------------------------------------------------------- dispatcher inputs
NRegs == 5
RegIdx == 0 .. (NRegs - 1)
\* On entry x0..x3 hold what the firmware call sequence left in them.
EntryRegs == [i \in RegIdx |-> 50 + i]
\* What the firmware kept of the interrupted context, by register index.
FwContexts == {[i \in RegIdx |-> 10 + i], [i \in RegIdx |-> 20 + 2 * i]}
SavedModes == {PSR_MODE_EL0t, PSR_MODE_EL1t, PSR_MODE_EL1h, PSR_MODE_EL2t,
               PSR_MODE_EL2h, PSR_MODE32_BIT}
PstateValues == {m + i + f : m \in SavedModes, i \in {0, PSR_I_BIT},
                 f \in {0, PSR_F_BIT}}
AlignedVbars == {v \in 0 .. (ULongMod - 1) : v % VectorAlign = 0}
\* elr_el1 is 100 on entry; a callback that took an exception leaves 104.
ElrValues == {100, 104}
\* 0, or an errno of the callback (-EINVAL)
CallbackErrs == {0, -22}
Snapshot(pstate) == [x |-> EntryRegs, pstate |-> pstate, pc |-> 200]
Callbacks(pstates) ==
  {[err |-> e, elr_el1 |-> l, writes_pstate |-> FALSE, pstate |-> 0] :
     e \in CallbackErrs, l \in ElrValues}
  \cup
  {[err |-> e, elr_el1 |-> l, writes_pstate |-> TRUE, pstate |-> p] :
     e \in CallbackErrs, l \in ElrValues, p \in pstates}
SysRegs(vbars) ==
  [CurrentEL : {CurrentEL}, elr_el1 : {100}, vbar_el1 : vbars,
   has_pan : BOOLEAN, pan : {0, 1}]
CallbackPstates == {PSR_MODE_EL1h + PSR_I_BIT, PSR_MODE_EL0t}
\* struct sdei_registered_event *arg: the descriptor of the event, which the
\* dispatch hands to the callback.
RegisteredEvent == [event_num |-> 1, callback |-> "sdei_event_handler"]
DispatchInputs ==
  [regs : {Snapshot(p) : p \in PstateValues}, sys : SysRegs(AlignedVbars),
   fw : FwContexts, cb : Callbacks(CallbackPstates),
   arg : {RegisteredEvent}]


\* ------------------------------------------------------ reentrancy wrapper
NewFrame(prio, flagged) ==
  [prio |-> prio, pc |-> "in_nmi", entry_flag |-> flagged,
   do_nmi_exit |-> FALSE, enters |-> 0, exits |-> 0, disp |-> Unset,
   ret |-> Unset]

Top == frames[Len(frames)]
SetTop(f) == frames' = [frames EXCEPT ![Len(frames)] = f]

\* linux/hardirq.h (not part of these sources): the accounting of the
\* NMI-like context, as the documentation gives it: entry flags the
\* processor, exit unflags it.
nmi_enter(flags, cpu) == [flags EXCEPT ![cpu] = TRUE]
nmi_exit(flags, cpu) == [flags EXCEPT ![cpu] = FALSE]
in_nmi(flags, cpu) == flags[cpu]

\* The saved processor state of a handler that a critical event interrupts:
\* the kernel's own mode with D, A, I and F masked.
HandlerPstate ==
  BitOr(CurrentEL, 1) + PSR_D_BIT + PSR_A_BIT + PSR_I_BIT + PSR_F_BIT

\* The inputs of the dispatch of the event on top: the snapshot is that of the
\* interrupted handler when the event is nested.
HandlerInputs ==
  [regs : {Snapshot(p) :
             p \in IF Len(frames) > 1 THEN {HandlerPstate} ELSE PstateValues},
   sys : [CurrentEL : {CurrentEL}, elr_el1 : {100},
          vbar_el1 : {ULongMod - VectorAlign}, has_pan : {TRUE}, pan : {0}],
   fw : {[i \in RegIdx |-> 10 + i]},
   cb : Callbacks(CallbackPstates),
   arg : {RegisteredEvent}]

\* The inputs of an event that runs to its return: one saved state for each
\* disposition, a callback that succeeds or fails.
EventInputs ==
  [regs : {Snapshot(p) :
             p \in {HandlerPstate, BitOr(CurrentEL, 1), PSR_MODE_EL0t,
                    PSR_MODE32_BIT}},
   sys : [CurrentEL : {CurrentEL}, elr_el1 : {100},
          vbar_el1 : {ULongMod - VectorAlign}, has_pan : {TRUE}, pan : {0}],
   fw : {[i \in RegIdx |-> 10 + i]},
   cb : {[err |-> e, elr_el1 |-> 100, writes_pstate |-> FALSE, pstate |-> 0] :
           e \in CallbackErrs},
   arg : {RegisteredEvent}]

\* Firmware delivers an event to a processor that is in no event.
SdeiEventArrives ==
  /\ ep_pc = "published"
  /\ frames = <<>>
  /\ \E cpu \in cpu_possible_mask, prio \in Slots :
       /\ cur_cpu' = cpu
       /\ frames' = <<NewFrame(prio, in_nmi(nmi_flag, cpu))>>
  /\ UNCHANGED <<config_vars, arena_vars, ep_vars, nmi_flag, nmi_enter_calls,
                 nmi_exit_calls, preempts, preempts_flagged, disp_vars>>
  /\ NoObs

\* A critical event interrupts the normal event in flight, at any point of it.
CriticalEventPreempts ==
  /\ ep_pc = "published"
  /\ Len(frames) = 1
  /\ frames[1].prio = "normal"
  /\ preempts < MaxPreempts
  /\ preempts' = preempts + 1
  /\ preempts_flagged' = preempts_flagged +
                         (IF in_nmi(nmi_flag, cur_cpu) THEN 1 ELSE 0)
  /\ frames' = Append(frames, NewFrame("critical", in_nmi(nmi_flag, cur_cpu)))
  /\ UNCHANGED <<config_vars, arena_vars, ep_vars, cur_cpu, nmi_flag,
                 nmi_enter_calls, nmi_exit_calls, disp_vars>>
  /\ NoObs

NeedNmiEnterAlways(flagged) == TRUE

\* sdei.c:224: if (!in_nmi())
NeedNmiEnter(flagged) == ~flagged

\* sdei.c:224: the test of in_nmi()
WrapperCheckInNmi ==
  /\ frames # <<>>
  /\ Top.pc = "in_nmi"
  /\ SetTop([Top EXCEPT !.pc = IF NeedNmiEnter(in_nmi(nmi_flag, cur_cpu))
                                THEN "nmi_enter" ELSE "call"])
  /\ UNCHANGED <<config_vars, arena_vars, ep_vars, cur_cpu, preempts,
                 preempts_flagged, nmi_flag,
                 nmi_enter_calls, nmi_exit_calls, disp_vars>>
  /\ NoObs

\* sdei.c:225-226: nmi_enter(); do_nmi_exit = true;
WrapperNmiEnter ==
  /\ frames # <<>>
  /\ Top.pc = "nmi_enter"
  /\ nmi_flag' = nmi_enter(nmi_flag, cur_cpu)
  /\ nmi_enter_calls' = nmi_enter_calls + 1
  /\ SetTop([Top EXCEPT !.pc = "call", !.do_nmi_exit = TRUE,
                        !.enters = @ + 1])
  /\ UNCHANGED <<config_vars, arena_vars, ep_vars, cur_cpu, preempts,
                 preempts_flagged, nmi_exit_calls,
                 disp_vars>>
  /\ NoObs

\* sdei.c:229: _sdei_handler is entered
SdeiHandlerCall ==
  /\ frames # <<>>
  /\ Top.pc = "call"
  /\ SetTop([Top EXCEPT !.pc = "in_handler"])
  /\ UNCHANGED <<config_vars, arena_vars, ep_vars, cur_cpu, preempts,
                 preempts_flagged, nmi_flag,
                 nmi_enter_calls, nmi_exit_calls, disp_vars>>
  /\ NoObs

\* sdei.c:229: ret = _sdei_handler(regs, arg)
SdeiHandlerReturn ==
  /\ frames # <<>>
  /\ Top.pc = "in_handler"
  /\ \E in \in HandlerInputs :
       LET out == _sdei_handler(in)
       IN SetTop([Top EXCEPT !.pc = "nmi_exit", !.disp = out.ret,
                             !.ret = out.ret])
  /\ UNCHANGED <<config_vars, arena_vars, ep_vars, cur_cpu, preempts,
                 preempts_flagged, nmi_flag,
                 nmi_enter_calls, nmi_exit_calls, disp_vars>>
  /\ NoObs

NeedNmiExitAlways(f) == TRUE

\* sdei.c:231: if (do_nmi_exit)
NeedNmiExit(f) == f.do_nmi_exit

\* sdei.c:231-232
WrapperNmiExit ==
  /\ frames # <<>>
  /\ Top.pc = "nmi_exit"
  /\ IF NeedNmiExit(Top)
     THEN /\ nmi_flag' = nmi_exit(nmi_flag, cur_cpu)
          /\ nmi_exit_calls' = nmi_exit_calls + 1
          /\ SetTop([Top EXCEPT !.pc = "return", !.exits = @ + 1])
     ELSE /\ SetTop([Top EXCEPT !.pc = "return"])
          /\ UNCHANGED <<nmi_flag, nmi_exit_calls>>
  /\ UNCHANGED <<config_vars, arena_vars, ep_vars, cur_cpu, preempts,
                 preempts_flagged, nmi_enter_calls,
                 disp_vars>>
  /\ NoObs

\* sdei.c:234: return ret;
WrapperReturnValue(f) == f.ret

WrapperReturn ==
  /\ frames # <<>>
  /\ Top.pc = "return"
  /\ last_ret' = WrapperReturnValue(Top)
  /\ on_stack' = NoQuery
  /\ disarms' = 0
  /\ frames' = SubSeq(frames, 1, Len(frames) - 1)
  /\ IF Len(frames) = 1
     THEN \* the episode ends: its counts start again with the next event
          /\ cur_cpu' = 0
          /\ nmi_enter_calls' = 0
          /\ nmi_exit_calls' = 0
          /\ preempts' = 0
          /\ preempts_flagged' = 0
     ELSE UNCHANGED <<cur_cpu, nmi_enter_calls, nmi_exit_calls, preempts,
                     preempts_flagged>>
  /\ UNCHANGED <<config_vars, arena_vars, ep_vars, nmi_flag, disp_vars>>

\* __sdei_handler(regs, arg) run from its entry to its return with no event
\* interrupting it, on a processor whose in_nmi() is flagged: the value it
\* returns, nmi_flag as it leaves it and as it was while _sdei_handler ran,
\* and the nmi_enter and nmi_exit calls it made.
__sdei_handler(flags, cpu, in) ==
  LET do_nmi_exit == NeedNmiEnter(in_nmi(flags, cpu))
      flags1 == IF do_nmi_exit THEN nmi_enter(flags, cpu) ELSE flags
      out == _sdei_handler(in)
      f == [NewFrame("normal", in_nmi(flags, cpu)) EXCEPT
              !.do_nmi_exit = do_nmi_exit, !.disp = out.ret, !.ret = out.ret]
      flags2 == IF NeedNmiExit(f) THEN nmi_exit(flags1, cpu) ELSE flags1
  IN [ret |-> WrapperReturnValue(f), flags |-> flags2, during |-> flags1,
      enters |-> IF do_nmi_exit THEN 1 ELSE 0,
      exits |-> IF NeedNmiExit(f) THEN 1 ELSE 0]

\* Firmware delivers an event and __sdei_handler runs to its return.
SdeiEvent ==
  /\ ep_pc = "published"
  /\ \E cpu \in cpu_possible_mask, in \in EventInputs :
       LET r == __sdei_handler(nmi_flag, cpu, in)
       IN /\ last_ret' = r.ret
          /\ nmi_flag' = r.flags
  /\ on_stack' = NoQuery
  /\ disarms' = 0
  /\ UNCHANGED <<config_vars, arena_vars, ep_vars, frames, cur_cpu,
                 nmi_enter_calls, nmi_exit_calls, preempts, preempts_flagged,
                 disp_vars>>

\* ---------------------------------------------------------- specifications
NoDispatch == [called |-> FALSE]

InitConfig ==
  /\ config_vmap_stack \in BOOLEAN
  /\ cpu_possible_mask \in {m \in SUBSET Cpus : 0 \in m}
  /\ CurrentEL \in {CurrentEL_EL1, CurrentEL_EL2}
  /\ hyp_mode_available \in BOOLEAN
  /\ (CurrentEL = CurrentEL_EL2) => hyp_mode_available

InitState ==
  /\ sdei_stack_normal_ptr = [c \in Cpus |-> NULL]
  /\ sdei_stack_critical_ptr = [c \in Cpus |-> NULL]
  /\ vmalloc_live = {}
  /\ vfree_log = <<>>
  /\ vfree_bad = FALSE
  /\ sdei_exit_mode = 0
  /\ ep_pc = "boot"
  /\ ep_conduit = CONDUIT_INVALID
  /\ init_pos = 0
  /\ init_err = 0
  /\ entry_point = 0
  /\ alloc_calls = 0
  /\ on_stack = NoQuery
  /\ frames = <<>>
  /\ cur_cpu = 0
  /\ nmi_flag = [c \in Cpus |-> FALSE]
  /\ nmi_enter_calls = 0
  /\ nmi_exit_calls = 0
  /\ preempts = 0
  /\ preempts_flagged = 0
  /\ last_ret = Unset
  /\ disarms = 0

Init ==
  /\ InitConfig
  /\ InitState
  /\ d_in = NoDispatch
  /\ d_out = NoDispatch

\* The arena, the resolution and the events, each event run to its return.
Next ==
  \/ sdei_arch_get_entry_point
  \/ init_sdei_stacks
  \/ Disarm
  \/ OnSdeiStackQuery
  \/ SdeiEvent

Spec == Init /\ [][Next]_vars

\* The wrapper step by step, a critical event interrupting a normal one at
\* any step, on a build without stack isolation (the wrapper reads no slot).
InitWrapper ==
  /\ InitConfig
  /\ config_vmap_stack = FALSE
  /\ InitState
  /\ d_in = NoDispatch
  /\ d_out = NoDispatch

NextWrapper ==
  \/ sdei_arch_get_entry_point
  \/ SdeiEventArrives
  \/ CriticalEventPreempts
  \/ WrapperCheckInNmi
  \/ WrapperNmiEnter
  \/ SdeiHandlerCall
  \/ SdeiHandlerReturn
  \/ WrapperNmiExit
  \/ WrapperReturn

SpecWrapper == InitWrapper /\ [][NextWrapper]_vars

\* One call of _sdei_handler on inputs drawn from DispatchInputs.
InitDispatch ==
  /\ config_vmap_stack = TRUE
  /\ cpu_possible_mask = Cpus
  /\ CurrentEL \in {CurrentEL_EL1, CurrentEL_EL2}
  /\ hyp_mode_available = (CurrentEL = CurrentEL_EL2)
  /\ InitState
  /\ d_in \in DispatchInputs
  /\ d_out = NoDispatch

DispatchCall ==
  /\ d_out = NoDispatch
  /\ d_out' = [called |-> TRUE, out |-> _sdei_handler(d_in)]
  /\ UNCHANGED <<config_vars, arena_vars, ep_vars, handler_vars, obs_vars,
                 d_in>>

NextDispatch == DispatchCall

SpecDispatch == InitDispatch /\ [][NextDispatch]_vars


\* ------------------------------------- samples/wrapdrive/wd_comp.c: wd_do_comp
\* What wd_send and wd_recv_sync return: 0 or an errno for the send; the
\* number of responses received, or an errno, for the receive.
SendReturns == {0, -16, -22}
RecvReturns == {-16, -1, 0, 1, 2}
\* The response the queue delivers (struct wd_comp_msg: out_bytes, in_coms,
\* cflags) and the caller's *cflush, *comsumed and *out_bytes before the call.
CompResponses == [out_bytes : {0, 7}, in_coms : {3, 4}, cflags : {1, 4}]
CompOutputs == {[out_bytes |-> 90, comsumed |-> 91, cflush |-> 3],
                [out_bytes |-> 7, comsumed |-> 3, cflush |-> 1]}
CompInputs ==
  [send_ret : SendReturns, recv_ret : RecvReturns, resp : CompResponses,
   outs : CompOutputs, in_bytes : {64}]

\* wd_comp.c:77-80: the request wd_do_comp builds in ctxt->cache_msg
CompRequest(in) == [cflags |-> in.outs.cflush, in_bytes |-> in.in_bytes]

\* wd_comp.c:83: if (ret)
SendFailed(ret) == ret # 0

\* wd_comp.c:88: if (ret != 1)
RecvFailed(ret) == ret # 1

\* wd_do_comp on the inputs in: its return value, the caller's three outputs
\* on return, and the calls it made.
wd_do_comp(in) ==
  LET sent == <<"wd_send", CompRequest(in)>>
  IN IF SendFailed(in.send_ret)
     THEN [ret |-> in.send_ret, outs |-> in.outs, calls |-> <<sent>>]
     ELSE IF RecvFailed(in.recv_ret)
          THEN [ret |-> in.recv_ret, outs |-> in.outs,
                calls |-> <<sent, <<"wd_recv_sync", 0>> >>]
          ELSE [ret |-> 0,
                outs |-> [out_bytes |-> in.resp.out_bytes,
                          comsumed |-> in.resp.in_coms,
                          cflush |-> in.resp.cflags],
                calls |-> <<sent, <<"wd_recv_sync", 0>> >>]

\* One call of wd_do_comp on inputs drawn from CompInputs.
InitComp ==
  /\ config_vmap_stack = FALSE
  /\ cpu_possible_mask = Cpus
  /\ CurrentEL = CurrentEL_EL1
  /\ hyp_mode_available = FALSE
  /\ InitState
  /\ d_in \in CompInputs
  /\ d_out = NoDispatch

CompCall ==
  /\ d_out = NoDispatch
  /\ d_out' = [called |-> TRUE, out |-> wd_do_comp(d_in)]
  /\ UNCHANGED <<config_vars, arena_vars, ep_vars, handler_vars, obs_vars,
                 d_in>>

NextComp == CompCall

SpecComp == InitComp /\ [][NextComp]_vars


\* ------------------------------------------------------------------ claims
\* What a step is, read off the state before and after it.
ResolveCall == ep_pc = "boot" /\ ep_pc' # "boot"
ArmStep == ep_pc = "arming" /\ alloc_calls' = alloc_calls + 1
\* arch_alloc_vmap_stack returned NULL: the allocator gained no region
AllocFailed == ArmStep /\ ~(vmalloc_live \subseteq vmalloc_live' /\ vmalloc_live' # vmalloc_live)
AllocSucceeded == ArmStep /\ ~AllocFailed
DisarmStep == disarms' >= 1 /\ (disarms' > disarms \/ disarms = 2)
DispatchStep == last_ret' # Unset
QueryStep == on_stack'.asked

SlotPtr(slot, cpu) ==
  IF slot = "normal" THEN sdei_stack_normal_ptr[cpu]
  ELSE sdei_stack_critical_ptr[cpu]
SlotKeys == Slots \X Cpus
\* The regions the slots point to, before the step
SlotRegions == {SlotPtr(k[1], k[2]) : k \in SlotKeys} \ {NULL}
AllSlotsNull ==
  \A c \in Cpus : sdei_stack_normal_ptr[c] = NULL /\ sdei_stack_critical_ptr[c] = NULL
\* The log of vfree holds each region of S once and nothing else.
FreedExactlyOnce(log, S) ==
  /\ Range(log) = S
  /\ Len(log) = Cardinality(S)
  /\ NULL \notin Range(log)

\* C1: when an allocation of the arming fails (the normal or the critical
\* region of any processor), the arming reports failure (-ENOMEM, and the
\* resolution returns 0), every region allocated so far has been given to
\* vfree exactly once, none is left with the allocator and every slot of every
\* processor is NULL.
C1_ArmRollback ==
  [][AllocFailed =>
       /\ ep_pc' = "failed"
       /\ init_err' = -ENOMEM
       /\ entry_point' = 0
       /\ FreedExactlyOnce(vfree_log', SlotRegions)
       /\ Cardinality(SlotRegions) = init_pos - 1
       /\ ~vfree_bad'
       /\ vmalloc_live' = {}
       /\ AllSlotsNull']_vars

\* The critical allocation of a processor that is not the first one failed:
\* the normal region of that processor and both of the processor before it
\* were freed.
C1_Witness ==
  /\ ep_pc = "failed"
  /\ init_err = -ENOMEM
  /\ init_pos >= 4
  /\ init_pos % 2 = 0
  /\ Len(vfree_log) = init_pos - 1

Armed == ep_pc = "published" /\ config_vmap_stack
SlotCells(slot, cpu) == Cells(SlotPtr(slot, cpu), SDEI_STACK_SIZE)
ArmedKeys == Slots \X cpu_possible_mask
ArmedRegionsOk ==
  /\ \A k \in ArmedKeys :
       /\ SlotPtr(k[1], k[2]) # NULL
       /\ [base |-> SlotPtr(k[1], k[2]), size |-> SDEI_STACK_SIZE] \in vmalloc_live
  /\ \A k1, k2 \in ArmedKeys :
       k1 # k2 => SlotCells(k1[1], k1[2]) \cap SlotCells(k2[1], k2[2]) = {}
  /\ \A r1, r2 \in vmalloc_live :
       r1 # r2 => Cells(r1.base, r1.size) \cap Cells(r2.base, r2.size) = {}

\* C2: once the arming has succeeded, for every possible processor the normal
\* and the critical slot are not NULL, each points to a live region of exactly
\* SDEI_STACK_SIZE, the regions are pairwise disjoint, and no dispatch and no
\* membership query changes a slot.
C2_ArmedRegions ==
  [][/\ Armed' => ArmedRegionsOk'
     /\ (Armed /\ Armed') =>
          UNCHANGED <<sdei_stack_normal_ptr, sdei_stack_critical_ptr,
                      vmalloc_live>>]_vars

\* Two processors armed, and an event dispatched on the armed arena.
C2_Witness ==
  /\ Armed
  /\ Cardinality(cpu_possible_mask) >= 2
  /\ last_ret # Unset
  /\ Cardinality(vmalloc_live) = 2 * Cardinality(cpu_possible_mask)

\* C3: free_sdei_stacks, from any state of the arena (never armed, armed, the
\* partly armed arena of a failed arming, already disarmed), leaves every slot
\* NULL, gives each allocated region to vfree exactly once and never a NULL or
\* a region that is not live; a second disarm right after one frees nothing
\* and changes nothing.
C3_DisarmIdempotent ==
  [][/\ (DisarmStep \/ AllocFailed) =>
          /\ AllSlotsNull'
          /\ FreedExactlyOnce(vfree_log', SlotRegions)
          /\ ~vfree_bad'
          /\ vmalloc_live' = {}
     /\ (DisarmStep /\ disarms >= 1) =>
          /\ vfree_log' = <<>>
          /\ UNCHANGED <<sdei_stack_normal_ptr, sdei_stack_critical_ptr,
                         vmalloc_live, vfree_bad>>]_vars

\* An armed arena of two processors was disarmed (four regions freed), then
\* disarmed again.
C3_Witness ==
  /\ disarms = 2
  /\ ep_pc = "torn_down"
  /\ config_vmap_stack
  /\ Cardinality(cpu_possible_mask) >= 2
  /\ AllSlotsNull

InOwnRegion(cpu, sp) ==
  sp \in SlotCells("critical", cpu) \cup SlotCells("normal", cpu)

\* C4: with stack isolation and the arena armed, _on_sdei_stack(sp) on a
\* processor is true exactly when sp is in [base, base + SDEI_STACK_SIZE) of
\* the critical or the normal region of that processor; without stack
\* isolation it is false for every sp.
C4_MembershipOracle ==
  on_stack.asked =>
    /\ Armed => (on_stack.res <=> InOwnRegion(on_stack.cpu, on_stack.sp))
    /\ ~config_vmap_stack => ~on_stack.res

\* A query with an sp inside the region of another processor, answered false.
C4_Witness ==
  /\ on_stack.asked
  /\ Armed
  /\ ~on_stack.res
  /\ \E c \in cpu_possible_mask \ {on_stack.cpu} : InOwnRegion(c, on_stack.sp)

\* C5: a resolution that fails, by the privilege mismatch or by an allocation
\* failing, returns 0, leaves the recorded calling convention as it was and
\* leaves no region allocated; with the privilege mismatch it fails before any
\* allocation is attempted.
C5_ResolveFailure ==
  [][/\ (ResolveCall /\ BootConfigUnsupported) =>
          /\ ep_pc' = "failed"
          /\ alloc_calls' = 0
          /\ UNCHANGED arena_vars
     /\ ((ResolveCall /\ BootConfigUnsupported) \/ AllocFailed) =>
          /\ ep_pc' = "failed"
          /\ entry_point' = 0
          /\ sdei_exit_mode' = sdei_exit_mode
          /\ vmalloc_live' = {}
          /\ AllSlotsNull'
     /\ (ep_pc # "failed" /\ ep_pc' = "failed") =>
          ((ResolveCall /\ BootConfigUnsupported) \/ AllocFailed)]_vars

\* The resolution failed on the privilege mismatch of a build with stack
\* isolation, asked for the SMC conduit.
C5_Witness ==
  /\ ep_pc = "failed"
  /\ hyp_mode_available
  /\ ~is_kernel_in_hyp_mode
  /\ config_vmap_stack
  /\ ep_conduit = CONDUIT_SMC
  /\ alloc_calls = 0

\* C6: a resolution whose privilege check passes and whose arming (with stack
\* isolation) succeeds records SDEI_EXIT_HVC exactly for the HVC conduit and
\* SDEI_EXIT_SMC otherwise, and returns __sdei_asm_handler, not 0, whatever
\* the conduit; without stack isolation it allocates nothing and succeeds
\* whenever the privilege check passes.
C6_ResolveSuccess ==
  [][/\ (ResolveCall /\ ~BootConfigUnsupported /\ ~config_vmap_stack) =>
          /\ ep_pc' = "published"
          /\ alloc_calls' = 0
          /\ vmalloc_live' = {}
     /\ (AllocSucceeded /\ init_pos = InitOrderLen) => ep_pc' = "published"
     /\ (ResolveCall /\ ~BootConfigUnsupported /\ config_vmap_stack) =>
          ep_pc' = "arming"
     /\ (ep_pc # "published" /\ ep_pc' = "published") =>
          /\ entry_point' = __sdei_asm_handler
          /\ entry_point' # 0
          /\ (sdei_exit_mode' = SDEI_EXIT_HVC) <=> (ep_conduit' = CONDUIT_HVC)
          /\ (ep_conduit' # CONDUIT_HVC) => sdei_exit_mode' = SDEI_EXIT_SMC
          /\ SDEI_EXIT_HVC # SDEI_EXIT_SMC]_vars

\* The resolution of a build with stack isolation succeeded for the SMC
\* conduit, after it allocated both regions of every possible processor.
C6_Witness ==
  /\ ep_pc = "published"
  /\ config_vmap_stack
  /\ ep_conduit = CONDUIT_SMC
  /\ sdei_exit_mode = SDEI_EXIT_SMC
  /\ entry_point = __sdei_asm_handler
  /\ alloc_calls = 2 * Cardinality(cpu_possible_mask)

\* --------------------------------------------------- the dispatcher's claims
\* The saved processor state of the snapshot, read bit by bit: the mode field
\* is its five low bits, the interrupt mask is bit 7.
SavedMode(pstate) == pstate % 32
IrqMasked(pstate) == (pstate \div 128) % 2 = 1
KernelModeOf(sys) == sys.CurrentEL + 1
Dispatched == d_out.called
CallbackOk == d_in.cb.err = 0
\* The saved state the dispatcher decides on is the one the snapshot holds
\* when the callback has returned.
SavedPstate == d_out.out.regs.pstate
IsHandledCase ==
  /\ SavedMode(SavedPstate) = KernelModeOf(d_in.sys)
  /\ IrqMasked(SavedPstate)

\* C7: when the callback reports success, the dispatch returns Handled
\* (SDEI_EV_HANDLED) if and only if the saved mode is the dispatcher's own
\* kernel mode (CurrentEL with the stack selection bit) and interrupts were
\* masked in the saved state; for every other saved mode and interrupt flag
\* the value returned is not Handled.
C7_HandledDisposition ==
  (Dispatched /\ CallbackOk) =>
    ((d_out.out.ret = SDEI_EV_HANDLED) <=> IsHandledCase)

\* A successful dispatch of an event that interrupted the kernel with
\* interrupts masked has returned Handled.
C7_Witness ==
  /\ Dispatched
  /\ CallbackOk
  /\ ~d_in.cb.writes_pstate
  /\ SavedMode(d_in.regs.pstate) = KernelModeOf(d_in.sys)
  /\ IrqMasked(d_in.regs.pstate)
  /\ d_out.out.ret = SDEI_EV_HANDLED

VectorBase == d_in.sys.vbar_el1
Redirect(offset) == (VectorBase + offset) % ULongMod

\* C8: when the callback reports success, the dispatch returns vector base +
\* 0x280 for a saved kernel mode with interrupts enabled, vector base + 0x680
\* for a saved 32-bit user mode and vector base + 0x480 for a saved 64-bit
\* user mode, the vector base being vbar_el1 as read at the entry of the
\* dispatch; for the two user modes the saved interrupt flag plays no part.
C8_RedirectTargets ==
  (Dispatched /\ CallbackOk) =>
    /\ (SavedMode(SavedPstate) = KernelModeOf(d_in.sys)
        /\ ~IrqMasked(SavedPstate))
         => d_out.out.ret = Redirect(IrqVectorCurrentELSPx)
    /\ SavedMode(SavedPstate) = PSR_MODE32_BIT
         => d_out.out.ret = Redirect(IrqVectorLowerEL32)
    /\ SavedMode(SavedPstate) = PSR_MODE_EL0t
         => d_out.out.ret = Redirect(IrqVectorLowerEL64)

\* A successful dispatch of an event that interrupted a 32-bit user task
\* with interrupts masked was redirected to the 32-bit vector above a
\* non-zero vector base.
C8_Witness ==
  /\ Dispatched
  /\ CallbackOk
  /\ SavedMode(d_in.regs.pstate) = PSR_MODE32_BIT
  /\ IrqMasked(d_in.regs.pstate)
  /\ ~d_in.cb.writes_pstate
  /\ VectorBase # 0
  /\ d_out.out.ret = VectorBase + IrqVectorLowerEL32

Warned(out) ==
  \/ out.warned
  \/ \E k \in 1 .. Len(out.calls) : out.calls[k][1] = call_warn

\* C9: when the callback reports failure the dispatch returns Failed
\* (SDEI_EV_FAILED) whatever the saved mode and interrupt flag, the steps
\* after the callback do not run (no warning of an exception taken in the
\* handler, no disposition), and on return registers 0 to 3 of the snapshot
\* hold the values the firmware query gave for indices 0 to 3.
C9_CallbackFailure ==
  (Dispatched /\ ~CallbackOk) =>
    /\ d_out.out.ret = SDEI_EV_FAILED
    /\ ~Warned(d_out.out)
    /\ \A i \in 0 .. 3 : d_out.out.regs.x[i] = d_in.fw[i]

\* A failed callback that also took an exception, on an event that would
\* have been Handled: Failed was returned.
C9_Witness ==
  /\ Dispatched
  /\ ~CallbackOk
  /\ d_in.cb.elr_el1 # d_in.sys.elr_el1
  /\ SavedMode(d_in.regs.pstate) = KernelModeOf(d_in.sys)
  /\ IrqMasked(d_in.regs.pstate)
  /\ d_out.out.ret = SDEI_EV_FAILED
  /\ d_out.out.regs.x[3] = d_in.fw[3]

\* ------------------------------------------------------ the wrapper's claims
\* What one invocation of the wrapper has done so far, by where it is.
FrameOk(k) ==
  LET f == frames[k]
      top == k = Len(frames)
      flag == nmi_flag[cur_cpu]
  IN IF f.entry_flag
     THEN /\ f.enters = 0
          /\ f.exits = 0
          /\ f.pc \notin {"nmi_enter"}
          /\ f.pc \in {"nmi_exit", "return"} => f.disp # Unset
          /\ top => flag
     ELSE /\ f.pc \in {"call", "in_handler"} => (f.enters = 1 /\ flag)
          /\ f.pc \in {"nmi_exit", "return"} => (f.enters = 1 /\ f.disp # Unset)
          /\ f.pc = "nmi_exit" => (f.exits = 0 /\ flag)
          /\ f.pc = "return" => (f.exits = 1 /\ (top => ~flag))

WrapperReturns == Len(frames') < Len(frames)

\* C10: an invocation of the wrapper that finds the processor flagged as in
\* NMI context calls neither nmi_enter nor nmi_exit, still runs the
\* dispatcher and returns its disposition unchanged; one that finds it
\* unflagged flags it before the dispatcher runs and unflags it before it
\* returns, whatever the disposition (Handled, Failed or a redirect).
C10_ReentrancyWrapper ==
  [][/\ \A k \in 1 .. Len(frames') : FrameOk(k)'
     /\ WrapperReturns =>
          /\ Top.disp # Unset
          /\ last_ret' = Top.disp
          /\ Top.entry_flag => (Top.enters = 0 /\ Top.exits = 0)
          /\ ~Top.entry_flag => (Top.enters = 1 /\ Top.exits = 1
                                 /\ ~nmi_flag'[cur_cpu])]_vars

\* A critical event that found the processor flagged by the normal event it
\* interrupted has run the dispatcher and is about to return.
C10_Witness ==
  /\ Len(frames) = 2
  /\ frames[1].pc = "in_handler"
  /\ frames[2].entry_flag
  /\ frames[2].pc = "return"
  /\ frames[2].disp = SDEI_EV_FAILED
  /\ frames[2].enters = 0
  /\ frames[2].exits = 0
  /\ nmi_flag[cur_cpu]

\* The outermost event has done all but return.
EpisodeEnds == Len(frames) = 1 /\ frames[1].pc = "return"
\* nmi_enter calls that no nmi_exit has matched yet
OpenNmiEnters == nmi_enter_calls - nmi_exit_calls

\* C11 as stated: whatever the point at which a critical event preempts a
\* normal event that is inside the wrapper, exactly one nmi_enter and exactly
\* one nmi_exit are made between the arrival of the normal event and the
\* return of its wrapper.
C11_ExactlyOnceOverEpisode ==
  (EpisodeEnds /\ preempts >= 1) =>
    (nmi_enter_calls = 1 /\ nmi_exit_calls = 1)

\* C11, amended: the accounting calls of a nested episode are balanced and
\* never nested (at most one nmi_enter is unmatched, and then the processor
\* is flagged); a critical event that arrives while the processor is flagged
\* adds no call, one that arrives before the normal event's nmi_enter or
\* after its nmi_exit makes its own nmi_enter and nmi_exit, so that the
\* episode counts one pair plus one pair for each such critical event.
C11_BalancedOverEpisode ==
  /\ frames # <<>> =>
       /\ OpenNmiEnters \in {0, 1}
       /\ (OpenNmiEnters = 1) <=> nmi_flag[cur_cpu]
  /\ EpisodeEnds =>
       /\ nmi_enter_calls = 1 + (preempts - preempts_flagged)
       /\ nmi_exit_calls = nmi_enter_calls

\* A normal event preempted during its dispatch, about to return after
\* exactly one nmi_enter and one nmi_exit.
C11_Witness ==
  /\ EpisodeEnds
  /\ preempts = 1
  /\ preempts_flagged = 1
  /\ nmi_enter_calls = 1
  /\ nmi_exit_calls = 1

\* The same dispatch with a callback that leaves the saved processor state
\* of the snapshot as it was on entry.
CallbackKeepsPstate(in) == [in EXCEPT !.cb.writes_pstate = FALSE]
CallbackWritesPstate ==
  /\ d_in.cb.writes_pstate
  /\ d_in.cb.pstate # d_in.regs.pstate

\* C12: the disposition of a successful dispatch is decided by the saved mode
\* and the saved interrupt flag as the snapshot held them on entry, before
\* the registers are fetched and the callback runs: a callback that writes
\* the saved processor state and reports success gets the disposition the
\* dispatch would have returned had it not written it.
C12_PreCallbackSnapshot ==
  (Dispatched /\ CallbackOk) =>
    d_out.out.ret = _sdei_handler(CallbackKeepsPstate(d_in)).ret

\* The calls a dispatch makes up to and including the callback, in order: the
\* firmware query for the indices 0, 1, 2, 3, the setting of PSTATE.PAN when
\* set_pan, the callback.
QueryCalls == [k \in 1 .. 4 |-> <<call_context, k - 1>>]
CallsToCallback(set_pan) ==
  QueryCalls \o (IF set_pan THEN << <<call_pan, 1>> >> ELSE <<>>)
             \o << <<call_handler, 0>> >>
IsPrefix(p, s) == Len(p) <= Len(s) /\ SubSeq(s, 1, Len(p)) = p
\* Nothing of the steps up to the callback is done again after it.
NoRetryAfter(n, calls) ==
  \A k \in (n + 1) .. Len(calls) : calls[k][1] = call_warn
OneDisposition(out) ==
  out.ret \in 0 .. (ULongMod - 1)
StepsInOrder(set_pan) ==
  /\ IsPrefix(CallsToCallback(set_pan), d_out.out.calls)
  /\ NoRetryAfter(Len(CallsToCallback(set_pan)), d_out.out.calls)
  /\ \A i \in 0 .. 3 : d_out.out.regs.x[i] = d_in.fw[i]
  /\ OneDisposition(d_out.out)

\* C13 as stated: in one dispatch the firmware query is called once for each
\* of the indices 0, 1, 2, 3 and for no other, its results are in registers
\* 0 to 3 of the snapshot, then PSTATE.PAN is set, and only then the callback
\* runs, once; one disposition is produced and nothing is retried.
C13_StepOrderPanSet ==
  Dispatched => (StepsInOrder(TRUE) /\ d_out.out.pan = 1)

\* C13, amended: as stated, except that PSTATE.PAN is set only on a
\* processor that has the feature (ARM64_HAS_PAN, with CONFIG_ARM64_PAN); on
\* any other the dispatch executes a nop in its place and leaves PSTATE.PAN
\* as it was.
C13_StepOrder ==
  Dispatched =>
    /\ StepsInOrder(d_in.sys.has_pan)
    /\ d_out.out.pan = (IF d_in.sys.has_pan THEN 1 ELSE d_in.sys.pan)

\* A dispatch on a processor with PAN, entered with PSTATE.PAN clear: four
\* queries, PAN set, the callback, and the warning after it.
C13_Witness ==
  /\ Dispatched
  /\ d_in.sys.has_pan
  /\ d_in.sys.pan = 0
  /\ d_out.out.pan = 1
  /\ Len(d_out.out.calls) = 7
  /\ d_out.out.calls[5] = <<call_pan, 1>>
  /\ d_out.out.calls[6] = <<call_handler, 0>>

\* The same dispatch with a callback that took no exception: elr_el1 after it
\* is what it was on entry.
CallbackNoException(in) == [in EXCEPT !.cb.elr_el1 = in.sys.elr_el1]
ElrChanged == d_in.cb.elr_el1 # d_in.sys.elr_el1
Warnings(calls) == Cardinality({k \in 1 .. Len(calls) : calls[k][1] = call_warn})

\* C14: when the callback reports success and elr_el1 read after it differs
\* from elr_el1 read on entry, exactly one warning is logged and the dispatch
\* returns the disposition it would have returned had elr_el1 not changed;
\* when the two are equal no warning is logged.
C14_ExceptionWarning ==
  (Dispatched /\ CallbackOk) =>
    /\ d_out.out.ret = _sdei_handler(CallbackNoException(d_in)).ret
    /\ Warnings(d_out.out.calls) = (IF ElrChanged THEN 1 ELSE 0)
    /\ d_out.out.warned = ElrChanged

\* A successful callback that took an exception, on an event that
\* interrupted the kernel with interrupts masked: one warning, then Handled.
C14_Witness ==
  /\ Dispatched
  /\ CallbackOk
  /\ ElrChanged
  /\ Warnings(d_out.out.calls) = 1
  /\ d_out.out.calls[Len(d_out.out.calls)] = <<call_warn, 0>>
  /\ d_out.out.ret = SDEI_EV_HANDLED

DispatchReturns == ~d_out.called /\ d_out'.called
\* The saved processor state the callback leaves in the snapshot.
PstateAfterCallback ==
  IF d_in.cb.writes_pstate THEN d_in.cb.pstate ELSE d_in.regs.pstate

\* C15: apart from what the callback does, a dispatch writes only registers
\* 0 to 3 of the snapshot (every other general-purpose register, the saved
\* return address and the saved processor state are as they were), leaves
\* the event descriptor as it was given, and changes neither the slots of
\* the stack arena nor sdei_exit_mode.
C15_DispatchFrame ==
  [][DispatchReturns =>
       /\ \A i \in RegIdx \ (0 .. 3) : d_out'.out.regs.x[i] = d_in.regs.x[i]
       /\ d_out'.out.regs.pc = d_in.regs.pc
       /\ d_out'.out.regs.pstate = PstateAfterCallback
       /\ d_out'.out.arg = d_in.arg
       /\ UNCHANGED <<sdei_stack_normal_ptr, sdei_stack_critical_ptr,
                      sdei_exit_mode>>]_vars

\* A dispatch has replaced registers 0 to 3 and left register 4, the saved
\* return address and the saved processor state as they were.
C15_Witness ==
  /\ Dispatched
  /\ ~d_in.cb.writes_pstate
  /\ \A i \in 0 .. 3 : d_out.out.regs.x[i] # d_in.regs.x[i]
  /\ d_out.out.regs.x[4] = d_in.regs.x[4]
  /\ d_out.out.regs.pc = d_in.regs.pc
  /\ d_out.out.regs.pstate = d_in.regs.pstate
  /\ d_out.out.arg = RegisteredEvent

\* C16: a successful dispatch returns vector base + 0x480, the vector of an
\* interrupt from 64-bit user mode, only when the saved mode is 64-bit user
\* mode (EL0t); a saved 64-bit mode that is neither EL0t nor the dispatcher's
\* own kernel mode (the kernel's exception level with the other stack
\* selection, a higher exception level) never gets it.
C16_UserVectorOnlyForUser ==
  (Dispatched /\ CallbackOk /\ ~d_in.cb.writes_pstate
   /\ d_out.out.ret = Redirect(IrqVectorLowerEL64)) =>
    SavedMode(d_in.regs.pstate) = PSR_MODE_EL0t

\* A dispatcher is executing in invocation k of the wrapper.
Dispatching(k) == frames[k].pc = "in_handler"
InnerReturns == Len(frames) = 2 /\ Len(frames') = 1
OutermostReturns == Len(frames) = 1 /\ frames' = <<>>

\* C17: under every interleaving of a normal event and a critical event that
\* preempts it on the same processor, the processor is flagged as in NMI
\* context whenever a dispatcher, of either event, is executing; the return
\* of the critical event's wrapper does not clear the flag while the normal
\* event's dispatch is in progress; and when the outermost wrapper returns
\* the flag has the value it had when the first event arrived.
C17_NmiFlagCoversDispatch ==
  [][/\ \A k \in 1 .. Len(frames') :
          Dispatching(k)' => nmi_flag'[cur_cpu']
     /\ (InnerReturns /\ Dispatching(1)) => nmi_flag'[cur_cpu]
     /\ OutermostReturns => nmi_flag'[cur_cpu] = frames[1].entry_flag]_vars

\* The dispatchers of a normal event and of the critical event that
\* preempted it are both in progress, the processor flagged by the normal
\* event's wrapper alone.
C17_Witness ==
  /\ Len(frames) = 2
  /\ Dispatching(1)
  /\ Dispatching(2)
  /\ frames[2].entry_flag
  /\ ~frames[2].do_nmi_exit
  /\ nmi_flag[cur_cpu]
  /\ nmi_enter_calls = 1

\* Both slots of processor cpu are null: never armed, rolled back or disarmed.
SlotsNull(cpu) ==
  /\ sdei_stack_normal_ptr[cpu] = NULL
  /\ sdei_stack_critical_ptr[cpu] = NULL

\* C18: with stack isolation built in, whenever the slots of the invoking
\* processor are null, _on_sdei_stack(sp) is false for every sp, also for
\* an sp smaller than SDEI_STACK_SIZE.
C18_UnarmedOracleFalse ==
  (on_stack.asked /\ config_vmap_stack /\ SlotsNull(on_stack.cpu)) =>
    ~on_stack.res

\* The three addresses a dispatch at the kernel mode km redirects to above
\* the vector base v: for the kernel's own mode with interrupts enabled, for
\* a 32-bit user mode, for 64-bit user mode.
RedirectAddresses(km, v) ==
  <<Disposition(km, km, TRUE, v),
    Disposition(PSR_MODE32_BIT, km, TRUE, v),
    Disposition(PSR_MODE_EL0t, km, TRUE, v)>>
Sentinels == {SDEI_EV_HANDLED, SDEI_EV_FAILED}

\* C19: for every vector base that is a multiple of 0x800, the additions
\* being modulo the width of unsigned long, none of base + 0x280, base +
\* 0x480, base + 0x680 is the Handled or the Failed value and the three are
\* pairwise different: a dispatch that redirects never returns a value
\* firmware reads as Handled or Failed.
C19_ReturnValuesUnambiguous ==
  Dispatched =>
    LET r == RedirectAddresses(KernelModeOf(d_in.sys), VectorBase)
    IN /\ VectorBase % VectorAlign = 0
       /\ {r[1], r[2], r[3]} \cap Sentinels = {}
       /\ Cardinality({r[1], r[2], r[3]}) = 3
       /\ {r[1], r[2], r[3]} = {Redirect(640), Redirect(1152), Redirect(1664)}
       /\ (CallbackOk /\ ~IsHandledCase) => d_out.out.ret \notin Sentinels

\* A dispatch above the highest vector base redirected the kernel to its
\* own interrupt vector, an address that did not wrap.
C19_Witness ==
  /\ Dispatched
  /\ CallbackOk
  /\ VectorBase = ULongMod - VectorAlign
  /\ SavedMode(SavedPstate) = KernelModeOf(d_in.sys)
  /\ ~IrqMasked(SavedPstate)
  /\ d_out.out.ret = VectorBase + IrqVectorCurrentELSPx
  /\ d_out.out.ret \notin Sentinels

CompReturned == d_out.called
OneResponse == d_in.send_ret = 0 /\ d_in.recv_ret = 1
OutputsFromResponse ==
  /\ d_out.out.outs.out_bytes = d_in.resp.out_bytes
  /\ d_out.out.outs.comsumed = d_in.resp.in_coms
  /\ d_out.out.outs.cflush = d_in.resp.cflags

\* C20: for every return value of wd_send and of wd_recv_sync, wd_do_comp
\* returns 0 only if exactly one response was received and *out_bytes,
\* *comsumed and *cflush were written from it; whenever the send fails or
\* the receive does not deliver exactly one response it returns a value
\* other than 0 and leaves the three outputs as they were.
C20_SyncRequest ==
  CompReturned =>
    /\ d_out.out.ret = 0 => (OneResponse /\ OutputsFromResponse)
    /\ ~OneResponse => (d_out.out.ret # 0 /\ d_out.out.outs = d_in.outs)

=============================================================================
